---- MODULE Spec2Model ----
(***************************************************************************)
(* SmartTemp: prompt classification, temperature derivation and the        *)
(* generation client.                                                      *)
(*                                                                         *)
(* Numbers.  Temperatures are integers in units of 1/3000, so that             *)
(* 0.1 = 300, 0.8 = 2400, 1.0 = 3000 and the medium-tier blend             *)
(*     base + (0.8 - base) * ((0.7 - confidence) / 0.3)                    *)
(* is exact for every confidence on the 0.01 grid and every base on the    *)
(* 0.01 grid.  Confidences and similarities are integers in units of 1/100.*)
(* The model computes in exact arithmetic; binary rounding of the Python   *)
(* floats is not modelled.                                                 *)
(***************************************************************************)
EXTENDS Integers, Sequences, FiniteSets, TLC

\* ------------------------------------------------------------------ bounds
MaxPromptLen == 2
ConfOver == 10
MaxEncodeCalls == 2
MaxMockCalls == 3
MaxHistory == 2

\* --------------------------------------------------------------- constants
TMin == 300
TMax == 3000
HighConf == 70
LowConf == 40
Exploratory == 2400
DefaultConfidence == 50

VARIABLES
    engine_class,        \* "SmartTempEngine" or "SimpleSmartTempEngine"
    base_temp,           \* engine.base_temp (1/3000)
    scale_factor,        \* engine.scale_factor (1/3000)
    category_embeddings, \* engine.category_embeddings: category -> embedding
    category_descriptions, \* engine.category_descriptions: category -> text
    encode_calls,        \* number of embedding_model.encode calls after construction
    model_name,          \* llm.model_name
    conversation_history,  \* app.conversation_history, a list of entries
    temperature_history,   \* app.temperature_history, a list of entries
    responses_returned,  \* generate_response calls since the last clear that returned a response
    analyses_returned,   \* analyze_prompt calls since the last clear that returned an analysis
    mock_log,            \* the _generate_mock_response calls so far, in order
    invocations,         \* the UI handler invocations in progress, by request
    ret                  \* the value the last call handed to its caller

\* The state of the user interface around the engine and the client.
ui_vars == <<conversation_history, temperature_history, responses_returned,
             analyses_returned, mock_log, invocations>>

vars == <<engine_class, base_temp, scale_factor, category_embeddings,
          category_descriptions, encode_calls, model_name, ui_vars, ret>>

\* ------------------------------------------------------------- categories
\* Iteration order of category_descriptions / category_embeddings.
CategoryOrder ==
    <<"factual", "analytical", "creative", "philosophical", "personal", "instructional">>

Categories == {CategoryOrder[i] : i \in 1..Len(CategoryOrder)}

\* A name that is not a key of any category table.
UnknownCategories == {"fixed"}

\* Variant: the creative entry is 0.5.
category_base_temps_CreativeLow ==
    [c \in Categories |->
        CASE c = "factual" -> 300
          [] c = "instructional" -> 900
          [] c = "analytical" -> 1500
          [] c = "personal" -> 1800
          [] c = "philosophical" -> 2100
          [] c = "creative" -> 1500]

category_base_temps ==
    [c \in Categories |->
        CASE c = "factual" -> 300
          [] c = "instructional" -> 900
          [] c = "analytical" -> 1500
          [] c = "personal" -> 1800
          [] c = "philosophical" -> 2100
          [] c = "creative" -> 2700]

\* ----------------------------------------------------------------- inputs
\* A prompt is a sequence of tokens: a whitespace character, or a word.  The
\* substring test `keyword in prompt_lower` is a contiguous-subsequence test
\* on tokens; no token of Tokens contains a keyword other than itself, and no
\* concatenation of them creates one.
Tokens == {" ", "a", "Why", "story"}
Whitespace == {" "}

Prompts == UNION {[1..n -> Tokens] : n \in 0..MaxPromptLen}

\* The two scenario prompts, tokenised the same way.  None of their words
\* contains a keyword other than itself.
StoryPrompt ==
    <<"Write", " ", "a", " ", "short", " ", "story", " ", "about", " ", "a", " ",
      "robot", " ", "learning", " ", "to", " ", "love">>
CapitalPrompt ==
    <<"What", " ", "is", " ", "the", " ", "capital", " ", "of", " ", "Brazil", " ",
      "and", " ", "its", " ", "population", "?">>

\* Prompts given to analyze_prompt.
AnalysisPrompts == Prompts \cup {StoryPrompt, CapitalPrompt}

\* str.strip(): drop leading and trailing whitespace.
RECURSIVE LStrip(_)
LStrip(s) ==
    IF s = <<>> THEN <<>>
    ELSE IF Head(s) \in Whitespace THEN LStrip(Tail(s)) ELSE s

RECURSIVE RStrip(_)
RStrip(s) ==
    IF s = <<>> THEN <<>>
    ELSE IF s[Len(s)] \in Whitespace THEN RStrip(SubSeq(s, 1, Len(s) - 1)) ELSE s

Strip(s) == RStrip(LStrip(s))

\* `not prompt or not prompt.strip()`
IsBlank(prompt) == prompt = <<>> \/ Strip(prompt) = <<>>

\* str.lower(), token by token.
LowerToken(t) ==
    CASE t = "Why" -> "why"
      [] t = "Write" -> "write"
      [] t = "What" -> "what"
      [] t = "Brazil" -> "brazil"
      [] OTHER -> t
Lower(s) == [i \in 1..Len(s) |-> LowerToken(s[i])]

BaseTemps == {150, 2100, 3000, 4500}
ScaleFactors == {300, 900}

\* The scale factors the slider of the simple interface offers: 0.1 to 0.5 in
\* steps of 0.05.
SliderScaleFactors == {300 + 150 * k : k \in 0..8}

Confidences == (0 - ConfOver)..(100 + ConfOver)

\* Cosine similarities the encoder and cosine_similarity can produce for a
\* prompt: every category at SimFloor except at most two.
SimFloor == 0 - 20
SimVals == {SimFloor, 40, 41, 70, 71}
SimMaps ==
    {[c \in Categories |-> IF c = a THEN x ELSE IF c = b THEN y ELSE SimFloor] :
        a \in Categories, b \in Categories, x \in SimVals, y \in SimVals}

\* What embedding_model.encode and cosine_similarity do for a prompt: raise,
\* or yield the similarities.
EncoderOutcomes ==
    {[ok |-> FALSE, sims |-> <<>>]} \cup {[ok |-> TRUE, sims |-> m] : m \in SimMaps}

\* ---------------------------------------------------------------- helpers
Min2(a, b) == IF a <= b THEN a ELSE b
Max2(a, b) == IF a >= b THEN a ELSE b

\* max(0.1, min(1.0, temperature))
Clamp(t) == Max2(TMin, Min2(TMax, t))

NoCall == [op |-> "none"]

\* Variant: the default result carries the constructor's default temperature
\* 0.7 instead of the engine's base_temp.
DefaultAnalysis_FixedTemp(prompt, bt, err) ==
    [category |-> "analytical",
     confidence |-> DefaultConfidence,
     temperature |-> 2100,
     all_similarities |-> <<>>,
     prompt |-> prompt,
     error |-> err]

\* The result of the empty-input short circuit and of the except branch.
DefaultAnalysis(prompt, bt, err) ==
    [category |-> "analytical",
     confidence |-> DefaultConfidence,
     temperature |-> bt,
     all_similarities |-> <<>>,
     prompt |-> prompt,
     error |-> err]

\* Variant: the final clamp is missing.
calculate_temperature_NoClamp(confidence, category, bt) ==
    LET category_base_temp ==
            IF category \in Categories THEN category_base_temps[category] ELSE bt
    IN  IF confidence > HighConf THEN category_base_temp
        ELSE IF confidence > LowConf
             THEN category_base_temp
                  + ((Exploratory - category_base_temp) * (HighConf - confidence))
                    \div (HighConf - LowConf)
             ELSE Exploratory

\* Variant: the high-confidence tier starts at 0.8 instead of 0.7.
calculate_temperature_HighAt80(confidence, category, bt) ==
    LET category_base_temp ==
            IF category \in Categories THEN category_base_temps[category] ELSE bt
        temperature ==
            IF confidence > 80 THEN category_base_temp
            ELSE IF confidence > LowConf
                 THEN category_base_temp
                      + ((Exploratory - category_base_temp) * (HighConf - confidence))
                        \div (HighConf - LowConf)
                 ELSE Exploratory
    IN  Clamp(temperature)

\* Variant: the low-confidence tier is missing, the blend is used below 0.4.
calculate_temperature_NoLowTier(confidence, category, bt) ==
    LET category_base_temp ==
            IF category \in Categories THEN category_base_temps[category] ELSE bt
        temperature ==
            IF confidence > HighConf THEN category_base_temp
            ELSE category_base_temp
                 + ((Exploratory - category_base_temp) * (HighConf - confidence))
                   \div (HighConf - LowConf)
    IN  Clamp(temperature)

\* Variant: the blend factor grows with confidence, (confidence - 0.4) / 0.3.
calculate_temperature_BlendReversed(confidence, category, bt) ==
    LET category_base_temp ==
            IF category \in Categories THEN category_base_temps[category] ELSE bt
        temperature ==
            IF confidence > HighConf THEN category_base_temp
            ELSE IF confidence > LowConf
                 THEN category_base_temp
                      + ((Exploratory - category_base_temp) * (confidence - LowConf))
                        \div (HighConf - LowConf)
                 ELSE Exploratory
    IN  Clamp(temperature)

\* Variant: the low-confidence tier returns 1.0.
calculate_temperature_LowTierMax(confidence, category, bt) ==
    LET category_base_temp ==
            IF category \in Categories THEN category_base_temps[category] ELSE bt
        temperature ==
            IF confidence > HighConf THEN category_base_temp
            ELSE IF confidence > LowConf
                 THEN category_base_temp
                      + ((Exploratory - category_base_temp) * (HighConf - confidence))
                        \div (HighConf - LowConf)
                 ELSE TMax
    IN  Clamp(temperature)

\* Variant: the blend divides by 0.2 instead of 0.3, so it passes 0.8.
calculate_temperature_BlendOvershoot(confidence, category, bt) ==
    LET category_base_temp ==
            IF category \in Categories THEN category_base_temps[category] ELSE bt
        temperature ==
            IF confidence > HighConf THEN category_base_temp
            ELSE IF confidence > LowConf
                 THEN category_base_temp
                      + ((Exploratory - category_base_temp) * (HighConf - confidence))
                        \div 20
                 ELSE Exploratory
    IN  Clamp(temperature)

\* SmartTempEngine.calculate_temperature
calculate_temperature(confidence, category, bt) ==
    LET category_base_temp ==
            IF category \in Categories THEN category_base_temps[category] ELSE bt
        temperature ==
            IF confidence > HighConf THEN category_base_temp
            ELSE IF confidence > LowConf
                 THEN category_base_temp
                      + ((Exploratory - category_base_temp) * (HighConf - confidence))
                        \div (HighConf - LowConf)
                 ELSE Exploratory
    IN  Clamp(temperature)

\* max(items, key=lambda x: x[1]) over a dict iterated in `order`: the first
\* key, in iteration order, whose value is the maximum.
RECURSIVE FirstMax(_, _, _, _)
FirstMax(m, order, i, best) ==
    IF i > Len(order) THEN best
    ELSE FirstMax(m, order, i + 1, IF m[order[i]] > m[best] THEN order[i] ELSE best)

\* Variant: ties go to the last key in iteration order (>= instead of >).
BestCategory_LastWins(m, order) ==
    CHOOSE c \in DOMAIN m :
        /\ \A d \in DOMAIN m : m[d] <= m[c]
        /\ \A i, j \in 1..Len(order) :
            (order[i] = c /\ j > i) => m[order[j]] < m[c]

BestCategory(m, order) == FirstMax(m, order, 2, order[1])

\* Variant: no try/except around the encoder call.
analyze_prompt_Propagates(prompt, bt, enc) ==
    IF IsBlank(prompt)
    THEN [raised |-> FALSE, encodes |-> 0,
          result |-> DefaultAnalysis(prompt, bt, FALSE)]
    ELSE IF enc.ok
    THEN LET category == BestCategory(enc.sims, CategoryOrder)
             confidence == enc.sims[category]
         IN  [raised |-> FALSE, encodes |-> 1,
              result |-> [category |-> category,
                          confidence |-> confidence,
                          temperature |-> calculate_temperature(confidence, category, bt),
                          all_similarities |-> enc.sims,
                          prompt |-> prompt,
                          error |-> FALSE]]
    ELSE [raised |-> TRUE, encodes |-> 1,
          result |-> DefaultAnalysis(prompt, bt, TRUE)]

\* Variant: the confidence is clipped to [0, 1] before it is returned.
analyze_prompt_ClippedConfidence(prompt, bt, enc) ==
    IF IsBlank(prompt)
    THEN [raised |-> FALSE, encodes |-> 0,
          result |-> DefaultAnalysis(prompt, bt, FALSE)]
    ELSE IF enc.ok
    THEN LET category == BestCategory(enc.sims, CategoryOrder)
             confidence == Max2(0, Min2(100, enc.sims[category]))
         IN  [raised |-> FALSE, encodes |-> 1,
              result |-> [category |-> category,
                          confidence |-> confidence,
                          temperature |-> calculate_temperature(confidence, category, bt),
                          all_similarities |-> enc.sims,
                          prompt |-> prompt,
                          error |-> FALSE]]
    ELSE [raised |-> FALSE, encodes |-> 1,
          result |-> DefaultAnalysis(prompt, bt, TRUE)]

\* Variant: the temperature is the linear formula of the keyword engine,
\* base_temp + (1 - confidence) * scale_factor.
analyze_prompt_LinearScale(prompt, bt, enc) ==
    IF IsBlank(prompt)
    THEN [raised |-> FALSE, encodes |-> 0,
          result |-> DefaultAnalysis(prompt, bt, FALSE)]
    ELSE IF enc.ok
    THEN LET category == BestCategory(enc.sims, CategoryOrder)
             confidence == enc.sims[category]
         IN  [raised |-> FALSE, encodes |-> 1,
              result |-> [category |-> category,
                          confidence |-> confidence,
                          temperature |->
                              Clamp(bt + ((100 - confidence) * scale_factor) \div 100),
                          all_similarities |-> enc.sims,
                          prompt |-> prompt,
                          error |-> FALSE]]
    ELSE [raised |-> FALSE, encodes |-> 1,
          result |-> DefaultAnalysis(prompt, bt, TRUE)]

\* Variant: the prompt is encoded twice per request.
analyze_prompt_EncodesTwice(prompt, bt, enc) ==
    IF IsBlank(prompt)
    THEN [raised |-> FALSE, encodes |-> 0,
          result |-> DefaultAnalysis(prompt, bt, FALSE)]
    ELSE IF enc.ok
    THEN LET category == BestCategory(enc.sims, CategoryOrder)
             confidence == enc.sims[category]
         IN  [raised |-> FALSE, encodes |-> 2,
              result |-> [category |-> category,
                          confidence |-> confidence,
                          temperature |-> calculate_temperature(confidence, category, bt),
                          all_similarities |-> enc.sims,
                          prompt |-> prompt,
                          error |-> FALSE]]
    ELSE [raised |-> FALSE, encodes |-> 2,
          result |-> DefaultAnalysis(prompt, bt, TRUE)]

\* SmartTempEngine.analyze_prompt.  enc is what the encoder and the
\* similarity computation do if they are called.  encodes counts the calls of
\* embedding_model.encode; raised says whether an exception leaves the method.
analyze_prompt(prompt, bt, enc) ==
    IF IsBlank(prompt)
    THEN [raised |-> FALSE, encodes |-> 0,
          result |-> DefaultAnalysis(prompt, bt, FALSE)]
    ELSE IF enc.ok
    THEN LET category == BestCategory(enc.sims, CategoryOrder)
             confidence == enc.sims[category]
         IN  [raised |-> FALSE, encodes |-> 1,
              result |-> [category |-> category,
                          confidence |-> confidence,
                          temperature |-> calculate_temperature(confidence, category, bt),
                          all_similarities |-> enc.sims,
                          prompt |-> prompt,
                          error |-> FALSE]]
    ELSE [raised |-> FALSE, encodes |-> 1,
          result |-> DefaultAnalysis(prompt, bt, TRUE)]

\* `descriptions` of get_category_description.
descriptions ==
    [c \in Categories |->
        CASE c = "factual" -> "Precise, factual information with low temperature for accuracy"
          [] c = "analytical" -> "Balanced analysis with moderate temperature"
          [] c = "creative" -> "Imaginative and exploratory with high temperature"
          [] c = "philosophical" -> "Thoughtful exploration with medium-high temperature"
          [] c = "personal" -> "Empathic and contextual with medium temperature"
          [] c = "instructional" -> "Clear, step-by-step with medium-low temperature"]

\* Variant: descriptions[category] instead of descriptions.get with a default.
get_category_description_Subscript(category) ==
    IF category \in Categories
    THEN [raised |-> FALSE, value |-> descriptions[category]]
    ELSE [raised |-> TRUE, value |-> ""]

\* SmartTempEngine.get_category_description
get_category_description(category) ==
    [raised |-> FALSE,
     value |-> IF category \in Categories THEN descriptions[category]
               ELSE "General purpose response"]

\* `ranges` of get_optimal_temperature_range, (min_temp, max_temp).
ranges ==
    [c \in Categories |->
        CASE c = "factual" -> <<300, 900>>
          [] c = "instructional" -> <<600, 1200>>
          [] c = "analytical" -> <<1200, 1800>>
          [] c = "personal" -> <<1500, 2100>>
          [] c = "philosophical" -> <<1800, 2400>>
          [] c = "creative" -> <<2100, 3000>>]

\* SmartTempEngine.get_optimal_temperature_range
get_optimal_temperature_range(category) ==
    [raised |-> FALSE,
     value |-> IF category \in Categories THEN ranges[category] ELSE <<900, 2100>>]

\* ------------------------------------------- keyword-pattern engine tables
\* Iteration order of `patterns`.
PatternOrder ==
    <<"factual", "creative", "instructional", "analytical", "personal", "philosophical">>

patterns ==
    [c \in Categories |->
        CASE c = "factual" ->
               {<<"what">>, <<"when">>, <<"where">>, <<"who">>, <<"capital">>,
                <<"population">>, <<"temperature">>, <<"height">>,
                <<"how", " ", "many">>}
          [] c = "creative" ->
               {<<"write">>, <<"story">>, <<"poem">>, <<"creative">>, <<"imagine">>,
                <<"create">>, <<"invent">>, <<"fiction">>}
          [] c = "instructional" ->
               {<<"how", " ", "to">>, <<"make">>, <<"cook">>, <<"step">>,
                <<"instructions">>, <<"tutorial">>, <<"guide">>, <<"recipe">>}
          [] c = "analytical" ->
               {<<"compare">>, <<"analyze">>, <<"explain">>, <<"difference">>,
                <<"similar">>, <<"contrast">>,
                <<"pros", " ", "and", " ", "cons">>}
          [] c = "personal" ->
               {<<"advice">>, <<"should", " ", "i">>, <<"help", " ", "me">>,
                <<"improve">>, <<"better">>, <<"suggest">>, <<"recommend">>}
          [] c = "philosophical" ->
               {<<"why">>, <<"meaning">>, <<"purpose">>, <<"exist">>, <<"life">>,
                <<"universe">>, <<"ethical">>}]

\* `keyword in prompt_lower`
KeywordIn(keyword, s) ==
    \E i \in 1..Len(s) :
        /\ i + Len(keyword) - 1 <= Len(s)
        /\ SubSeq(s, i, i + Len(keyword) - 1) = keyword

\* Variant: a keyword weighs 0.1 instead of 0.3.
KeywordScores_Tenth(prompt) ==
    LET prompt_lower == Lower(prompt)
    IN  [c \in Categories |->
            Min2(100, 10 * Cardinality({k \in patterns[c] : KeywordIn(k, prompt_lower)}))]

\* scores[category] = min(1.0, score * 0.3)
KeywordScores(prompt) ==
    LET prompt_lower == Lower(prompt)
    IN  [c \in Categories |->
            Min2(100, 30 * Cardinality({k \in patterns[c] : KeywordIn(k, prompt_lower)}))]

\* Variant: the final clamp is missing.
simple_analyze_prompt_NoClamp(prompt, bt, sf) ==
    IF IsBlank(prompt)
    THEN [raised |-> FALSE, encodes |-> 0,
          result |-> DefaultAnalysis(prompt, bt, FALSE)]
    ELSE LET scores == KeywordScores(prompt)
             none == \A c \in Categories : scores[c] = 0
             best_category == IF none THEN "analytical"
                              ELSE BestCategory(scores, PatternOrder)
             confidence == IF none THEN DefaultConfidence ELSE scores[best_category]
             cbase == IF best_category \in Categories
                      THEN category_base_temps[best_category] ELSE bt
         IN  [raised |-> FALSE, encodes |-> 0,
              result |-> [category |-> best_category,
                          confidence |-> confidence,
                          temperature |-> cbase + ((100 - confidence) * sf) \div 100,
                          all_similarities |-> scores,
                          prompt |-> prompt,
                          error |-> FALSE]]

\* Variant: no default when no keyword matches; the first category wins
\* with score 0.
simple_analyze_prompt_NoDefault(prompt, bt, sf) ==
    IF IsBlank(prompt)
    THEN [raised |-> FALSE, encodes |-> 0,
          result |-> DefaultAnalysis(prompt, bt, FALSE)]
    ELSE LET scores == KeywordScores(prompt)
             best_category == BestCategory(scores, PatternOrder)
             confidence == scores[best_category]
             cbase == IF best_category \in Categories
                      THEN category_base_temps[best_category] ELSE bt
             temperature == cbase + ((100 - confidence) * sf) \div 100
         IN  [raised |-> FALSE, encodes |-> 0,
              result |-> [category |-> best_category,
                          confidence |-> confidence,
                          temperature |-> Clamp(temperature),
                          all_similarities |-> scores,
                          prompt |-> prompt,
                          error |-> FALSE]]

\* SimpleSmartTempEngine.analyze_prompt
simple_analyze_prompt(prompt, bt, sf) ==
    IF IsBlank(prompt)
    THEN [raised |-> FALSE, encodes |-> 0,
          result |-> DefaultAnalysis(prompt, bt, FALSE)]
    ELSE LET scores == KeywordScores(prompt)
             none == \A c \in Categories : scores[c] = 0
             best_category == IF none THEN "analytical"
                              ELSE BestCategory(scores, PatternOrder)
             confidence == IF none THEN DefaultConfidence ELSE scores[best_category]
             cbase == IF best_category \in Categories
                      THEN category_base_temps[best_category] ELSE bt
             temperature == cbase + ((100 - confidence) * sf) \div 100
         IN  [raised |-> FALSE, encodes |-> 0,
              result |-> [category |-> best_category,
                          confidence |-> confidence,
                          temperature |-> Clamp(temperature),
                          all_similarities |-> scores,
                          prompt |-> prompt,
                          error |-> FALSE]]

\* ------------------------------------------------------- generation client
\* Requested temperatures (1/3000): below, at and above the band edges 0.3
\* and 0.6, outside [0.1, 1.0], and 0.299, which rounds up across an edge.
GenTemps == {0 - 300, 600, 897, 900, 1797, 1800, 3600}
MaxTokens == {1, 500}

\* f"{temperature:.2f}": the sign and the hundredths, rounded to nearest, ties
\* to even (a tie is exact only for a binary fraction; GenTemps has no tie).
Fmt2(t) ==
    LET q == t \div 30
        r == t % 30
        n == IF r < 15 THEN q
             ELSE IF r > 15 THEN q + 1
             ELSE IF q % 2 = 0 THEN q ELSE q + 1
    IN  [neg |-> t < 0, hundredths |-> IF n < 0 THEN 0 - n ELSE n]

NoFmt == [neg |-> FALSE, hundredths |-> 0 - 1]

\* Python values a client method returns.  A str is either a literal (chars)
\* or one of the f-string templates with the values interpolated into it.
PyStr(chars) ==
    [type |-> "str", template |-> "literal", chars |-> chars,
     shown |-> NoFmt, prompt |-> <<>>]
PyTemplate(template, shown, prompt) ==
    [type |-> "str", template |-> template, chars |-> "",
     shown |-> shown, prompt |-> prompt]
PyNone ==
    [type |-> "NoneType", template |-> "literal", chars |-> "",
     shown |-> NoFmt, prompt |-> <<>>]
PyNumber ==
    [type |-> "int", template |-> "literal", chars |-> "",
     shown |-> NoFmt, prompt |-> <<>>]

\* len(v) > 0 for a str; every template has fixed text around its values.
IsNonEmptyText(v) ==
    /\ v.type = "str"
    /\ (v.template = "literal" => v.chars # "")

\* Exception classes and the except clauses that catch them.  response.json()
\* raises requests' JSONDecodeError, a RequestException (a plain ValueError in
\* older releases of requests, caught by `except Exception` with the same
\* handler body).
RequestExceptions == {"ConnectionError", "Timeout", "HTTPError", "JSONDecodeError"}
OtherExceptions == {"AttributeError", "TypeError", "KeyError", "IndexError"}
IsConnectionError(e) == e = "ConnectionError"
IsRequestException(e) == e \in RequestExceptions
IsException(e) == e \in RequestExceptions \cup OtherExceptions

\* What the backend does with one request: the connection fails, the request
\* times out, or a response with a status and a body arrives.  An error
\* status is raised before its body is read; 204 No Content has an empty body,
\* which is not JSON.
Statuses == {200, 204, 404, 500}
NetOutcomes(bodies) ==
    {[net |-> "ConnectionError", status |-> 0, body |-> "none"],
     [net |-> "Timeout", status |-> 0, body |-> "none"]}
    \cup {[net |-> "response", status |-> st,
            body |-> IF st >= 400 THEN "none" ELSE "not json"] : st \in Statuses \ {200}}
    \cup {[net |-> "response", status |-> 200, body |-> b] : b \in bodies}

\* session.post / session.get followed by response.raise_for_status():
\* the exception raised, or "none".
RequestError(net) ==
    IF net.net # "response" THEN net.net
    ELSE IF net.status >= 400 THEN "HTTPError"
    ELSE "none"

\* Bodies of POST /api/generate: not JSON, a JSON array, a JSON object
\* without 'response', or with 'response' a text, "", null or a number.
GenerateBodies ==
    {"not json", "array", "object", "response text", "response empty",
     "response null", "response number"}

\* Variant: result['response'] instead of result.get with a default.
ExtractResponse_Subscript(body) ==
    CASE body = "not json" -> [exc |-> "JSONDecodeError", value |-> PyNone]
      [] body = "array" -> [exc |-> "TypeError", value |-> PyNone]
      [] body = "object" -> [exc |-> "KeyError", value |-> PyNone]
      [] body = "response text" -> [exc |-> "none", value |-> PyStr("Paris")]
      [] body = "response empty" -> [exc |-> "none", value |-> PyStr("")]
      [] body = "response null" -> [exc |-> "none", value |-> PyNone]
      [] body = "response number" -> [exc |-> "none", value |-> PyNumber]

\* response.json() followed by result.get('response', 'No response generated'):
\* the exception raised and the value obtained.
ExtractResponse(body) ==
    CASE body = "not json" -> [exc |-> "JSONDecodeError", value |-> PyNone]
      [] body = "array" -> [exc |-> "AttributeError", value |-> PyNone]
      [] body = "object" -> [exc |-> "none", value |-> PyStr("No response generated")]
      [] body = "response text" -> [exc |-> "none", value |-> PyStr("Paris")]
      [] body = "response empty" -> [exc |-> "none", value |-> PyStr("")]
      [] body = "response null" -> [exc |-> "none", value |-> PyNone]
      [] body = "response number" -> [exc |-> "none", value |-> PyNumber]

\* Variant: the band edges are inclusive (<= 0.3, <= 0.6).
generate_mock_response_Inclusive(prompt, temperature) ==
    IF temperature <= 900
    THEN PyTemplate("Factual Response", Fmt2(temperature), prompt)
    ELSE IF temperature <= 1800
    THEN PyTemplate("Analytical Response", Fmt2(temperature), prompt)
    ELSE PyTemplate("Creative Response", Fmt2(temperature), prompt)

\* Variant: the text names the model the client is set to.
generate_mock_response_NamesModel(prompt, temperature) ==
    [(IF temperature < 900
      THEN PyTemplate("Factual Response", Fmt2(temperature), prompt)
      ELSE IF temperature < 1800
      THEN PyTemplate("Analytical Response", Fmt2(temperature), prompt)
      ELSE PyTemplate("Creative Response", Fmt2(temperature), prompt))
     EXCEPT !.chars = model_name]

\* LLMIntegration._generate_mock_response
generate_mock_response(prompt, temperature) ==
    IF temperature < 900
    THEN PyTemplate("Factual Response", Fmt2(temperature), prompt)
    ELSE IF temperature < 1800
    THEN PyTemplate("Analytical Response", Fmt2(temperature), prompt)
    ELSE PyTemplate("Creative Response", Fmt2(temperature), prompt)

\* Variant: a connection failure is retried once before the fallback.
generate_response_Retry(prompt, temperature, max_tokens, net) ==
    LET err == RequestError(net)
        got == ExtractResponse(net.body)
        exc == IF err # "none" THEN err ELSE got.exc
        mock == generate_mock_response(prompt, temperature)
    IN  IF exc = "none"
        THEN [raised |-> FALSE, value |-> got.value, requests |-> 1, mocks |-> 0,
              handler |-> "none"]
        ELSE IF IsConnectionError(exc)
        THEN [raised |-> FALSE, value |-> mock, requests |-> 2, mocks |-> 1,
              handler |-> "ConnectionError"]
        ELSE [raised |-> FALSE, value |-> mock, requests |-> 1, mocks |-> 1,
              handler |-> IF IsRequestException(exc) THEN "RequestException"
                          ELSE "Exception"]

\* Variant: the RequestException handler returns None instead of the fallback.
generate_response_NoneOnRequestError(prompt, temperature, max_tokens, net) ==
    LET err == RequestError(net)
        got == ExtractResponse(net.body)
        exc == IF err # "none" THEN err ELSE got.exc
        mock == generate_mock_response(prompt, temperature)
    IN  IF exc = "none"
        THEN [raised |-> FALSE, value |-> got.value, requests |-> 1, mocks |-> 0,
              handler |-> "none"]
        ELSE IF IsConnectionError(exc)
        THEN [raised |-> FALSE, value |-> mock, requests |-> 1, mocks |-> 1,
              handler |-> "ConnectionError"]
        ELSE IF IsRequestException(exc)
        THEN [raised |-> FALSE, value |-> PyNone, requests |-> 1, mocks |-> 0,
              handler |-> "RequestException"]
        ELSE [raised |-> FALSE, value |-> mock, requests |-> 1, mocks |-> 1,
              handler |-> "Exception"]

\* LLMIntegration.generate_response.  requests counts session.post calls,
\* mocks the calls of _generate_mock_response, handler names the except
\* clause taken.
generate_response(prompt, temperature, max_tokens, net) ==
    LET err == RequestError(net)
        got == ExtractResponse(net.body)
        exc == IF err # "none" THEN err ELSE got.exc
        mock == generate_mock_response(prompt, temperature)
    IN  IF exc = "none"
        THEN [raised |-> FALSE, value |-> got.value, requests |-> 1, mocks |-> 0,
              handler |-> "none"]
        ELSE IF IsConnectionError(exc)
        THEN [raised |-> FALSE, value |-> mock, requests |-> 1, mocks |-> 1,
              handler |-> "ConnectionError"]
        ELSE IF IsRequestException(exc)
        THEN [raised |-> FALSE, value |-> mock, requests |-> 1, mocks |-> 1,
              handler |-> "RequestException"]
        ELSE IF IsException(exc)
        THEN [raised |-> FALSE, value |-> mock, requests |-> 1, mocks |-> 1,
              handler |-> "Exception"]
        ELSE [raised |-> TRUE, value |-> PyNone, requests |-> 1, mocks |-> 0,
              handler |-> "none"]

\* SimpleLLMIntegration.generate_response
simple_generate_response(prompt, temperature, max_tokens) ==
    IF temperature < 900
    THEN PyTemplate("Factual Response", Fmt2(temperature), prompt)
    ELSE IF temperature < 1800
    THEN PyTemplate("Analytical Response", Fmt2(temperature), prompt)
    ELSE PyTemplate("Creative Response", Fmt2(temperature), prompt)

\* Bodies of GET /api/tags: not JSON, a JSON array, an object without
\* 'models', with 'models' null, [], a list of named models, or a list with
\* an entry that has no 'name'.
TagsBodies ==
    {"not json", "array", "object", "models null", "models empty",
     "models named", "models unnamed"}

DefaultModels == <<"llama2", "mistral", "codellama">>

\* response.json(), data.get('models', []) and the list comprehension.
ExtractModels(body) ==
    CASE body = "not json" -> [exc |-> "JSONDecodeError", models |-> <<>>]
      [] body = "array" -> [exc |-> "AttributeError", models |-> <<>>]
      [] body = "object" -> [exc |-> "none", models |-> <<>>]
      [] body = "models null" -> [exc |-> "TypeError", models |-> <<>>]
      [] body = "models empty" -> [exc |-> "none", models |-> <<>>]
      [] body = "models named" -> [exc |-> "none", models |-> <<"llama3", "phi3">>]
      [] body = "models unnamed" -> [exc |-> "KeyError", models |-> <<>>]

\* Variant: the except branch returns an empty list.
get_available_models_EmptyOnError(net) ==
    LET err == RequestError(net)
        got == ExtractModels(net.body)
        exc == IF err # "none" THEN err ELSE got.exc
    IN  IF exc = "none"
        THEN [raised |-> FALSE,
              value |-> IF got.models # <<>> THEN got.models ELSE DefaultModels]
        ELSE [raised |-> FALSE, value |-> <<>>]

\* LLMIntegration.get_available_models
get_available_models(net) ==
    LET err == RequestError(net)
        got == ExtractModels(net.body)
        exc == IF err # "none" THEN err ELSE got.exc
    IN  IF exc = "none"
        THEN [raised |-> FALSE,
              value |-> IF got.models # <<>> THEN got.models ELSE DefaultModels]
        ELSE IF IsException(exc)
        THEN [raised |-> FALSE, value |-> DefaultModels]
        ELSE [raised |-> TRUE, value |-> <<>>]

\* Variant: response.ok (status below 400) instead of status_code == 200.
health_check_Ok(net) ==
    LET exc == IF net.net # "response" THEN net.net ELSE "none"
    IN  IF exc = "none"
        THEN [raised |-> FALSE, value |-> net.status < 400]
        ELSE [raised |-> FALSE, value |-> FALSE]

\* LLMIntegration.health_check: no raise_for_status, the status is compared.
health_check(net) ==
    LET exc == IF net.net # "response" THEN net.net ELSE "none"
    IN  IF exc = "none"
        THEN [raised |-> FALSE, value |-> net.status = 200]
        ELSE IF IsException(exc)
        THEN [raised |-> FALSE, value |-> FALSE]
        ELSE [raised |-> TRUE, value |-> FALSE]

\* Bodies of POST /api/show: not JSON, a JSON array, a JSON object.
ShowBodies == {"not json", "array", "object"}

\* LLMIntegration.get_model_info: the JSON value of the body, or
\* {"error": str(e)}.
get_model_info(name, net) ==
    LET err == RequestError(net)
        exc == IF err # "none" THEN err
               ELSE IF net.body = "not json" THEN "JSONDecodeError" ELSE "none"
    IN  IF exc = "none"
        THEN [raised |-> FALSE,
              value |-> [type |-> IF net.body = "array" THEN "list" ELSE "dict",
                         keys |-> IF net.body = "array" THEN {}
                                  ELSE {"modelfile", "parameters"},
                         error |-> "none", name |-> name]]
        ELSE IF IsException(exc)
        THEN [raised |-> FALSE,
              value |-> [type |-> "dict", keys |-> {"error"}, error |-> exc,
                         name |-> name]]
        ELSE [raised |-> TRUE,
              value |-> [type |-> "NoneType", keys |-> {}, error |-> exc,
                         name |-> name]]

\* Bodies of POST /v1/chat/completions: not JSON, a JSON array, an object
\* without 'choices', with 'choices' null or [], with choices[0] lacking
\* 'message', with a message lacking 'content', or with 'content' a text, ""
\* or null.
OpenAIBodies ==
    {"not json", "array", "object", "choices null", "choices empty", "no message",
     "no content", "content text", "content empty", "content null"}

\* response.json() followed by result['choices'][0]['message']['content'].
ExtractContent(body) ==
    CASE body = "not json" -> [exc |-> "JSONDecodeError", value |-> PyNone]
      [] body = "array" -> [exc |-> "TypeError", value |-> PyNone]
      [] body = "object" -> [exc |-> "KeyError", value |-> PyNone]
      [] body = "choices null" -> [exc |-> "TypeError", value |-> PyNone]
      [] body = "choices empty" -> [exc |-> "IndexError", value |-> PyNone]
      [] body = "no message" -> [exc |-> "KeyError", value |-> PyNone]
      [] body = "no content" -> [exc |-> "KeyError", value |-> PyNone]
      [] body = "content text" -> [exc |-> "none", value |-> PyStr("Paris")]
      [] body = "content empty" -> [exc |-> "none", value |-> PyStr("")]
      [] body = "content null" -> [exc |-> "none", value |-> PyNone]

\* Variant: only requests.exceptions.RequestException is caught.
openai_generate_response_RequestOnly(prompt, temperature, max_tokens, net) ==
    LET err == RequestError(net)
        got == ExtractContent(net.body)
        exc == IF err # "none" THEN err ELSE got.exc
    IN  IF exc = "none"
        THEN [raised |-> FALSE, value |-> got.value, requests |-> 1]
        ELSE IF IsRequestException(exc)
        THEN [raised |-> FALSE, value |-> PyNone, requests |-> 1]
        ELSE [raised |-> TRUE, value |-> PyNone, requests |-> 1]

\* OpenAIIntegration.generate_response
openai_generate_response(prompt, temperature, max_tokens, net) ==
    LET err == RequestError(net)
        got == ExtractContent(net.body)
        exc == IF err # "none" THEN err ELSE got.exc
    IN  IF exc = "none"
        THEN [raised |-> FALSE, value |-> got.value, requests |-> 1]
        ELSE IF IsException(exc)
        THEN [raised |-> FALSE, value |-> PyNone, requests |-> 1]
        ELSE [raised |-> TRUE, value |-> PyNone, requests |-> 1]

\* ------------------------------------------------------------------- Init
Init ==
    /\ engine_class \in {"SmartTempEngine", "SimpleSmartTempEngine"}
    /\ base_temp \in BaseTemps
    /\ scale_factor \in IF engine_class = "SmartTempEngine" THEN ScaleFactors
                       ELSE SliderScaleFactors
    /\ category_embeddings =
         IF engine_class = "SmartTempEngine"
         THEN [c \in Categories |-> <<"embedding", c>>]
         ELSE <<>>
    /\ category_descriptions =
         IF engine_class = "SmartTempEngine"
         THEN [c \in Categories |-> <<"description", c>>]
         ELSE <<>>
    /\ encode_calls = 0
    /\ model_name = "llama2"
    /\ conversation_history = <<>>
    /\ temperature_history = <<>>
    /\ responses_returned = 0
    /\ analyses_returned = 0
    /\ mock_log = <<>>
    /\ invocations = <<>>
    /\ ret = NoCall

\* ---------------------------------------------------------------- actions
\* SmartTempEngine.analyze_prompt(prompt)
AnalyzePrompt ==
    /\ ret = NoCall
    /\ engine_class = "SmartTempEngine"
    /\ \E prompt \in AnalysisPrompts, enc \in EncoderOutcomes :
        LET out == analyze_prompt(prompt, base_temp, enc)
        IN  /\ encode_calls + out.encodes <= MaxEncodeCalls
            /\ encode_calls' = encode_calls + out.encodes
            /\ ret' = [op |-> "analyze_prompt", prompt |-> prompt,
                       encoder_ok |-> enc.ok,
                       raised |-> out.raised, result |-> out.result]
    /\ UNCHANGED <<engine_class, base_temp, scale_factor, category_embeddings,
                   category_descriptions, model_name, ui_vars>>

\* SimpleSmartTempEngine.analyze_prompt(prompt)
SimpleAnalyzePrompt ==
    /\ ret = NoCall
    /\ engine_class = "SimpleSmartTempEngine"
    /\ \E prompt \in AnalysisPrompts :
        LET out == simple_analyze_prompt(prompt, base_temp, scale_factor)
        IN  /\ encode_calls' = encode_calls + out.encodes
            /\ ret' = [op |-> "analyze_prompt", prompt |-> prompt,
                       encoder_ok |-> TRUE,
                       raised |-> out.raised, result |-> out.result]
    /\ UNCHANGED <<engine_class, base_temp, scale_factor, category_embeddings,
                   category_descriptions, model_name, ui_vars>>

\* SmartTempEngine.calculate_temperature called directly.
CalculateTemperature ==
    /\ ret = NoCall
    /\ engine_class = "SmartTempEngine"
    /\ \E confidence \in Confidences, category \in Categories \cup UnknownCategories :
        ret' = [op |-> "calculate_temperature",
                confidence |-> confidence, category |-> category,
                raised |-> FALSE,
                result |-> calculate_temperature(confidence, category, base_temp)]
    /\ UNCHANGED <<engine_class, base_temp, scale_factor, category_embeddings,
                   category_descriptions, encode_calls, model_name, ui_vars>>

\* SmartTempEngine.get_category_description(category)
GetCategoryDescription ==
    /\ ret = NoCall
    /\ engine_class = "SmartTempEngine"
    /\ \E category \in Categories \cup UnknownCategories :
        LET out == get_category_description(category)
        IN  ret' = [op |-> "get_category_description", category |-> category,
                    raised |-> out.raised, result |-> out.value]
    /\ UNCHANGED <<engine_class, base_temp, scale_factor, category_embeddings,
                   category_descriptions, encode_calls, model_name, ui_vars>>

\* SmartTempEngine.get_optimal_temperature_range(category)
GetOptimalTemperatureRange ==
    /\ ret = NoCall
    /\ engine_class = "SmartTempEngine"
    /\ \E category \in Categories \cup UnknownCategories :
        LET out == get_optimal_temperature_range(category)
        IN  ret' = [op |-> "get_optimal_temperature_range", category |-> category,
                    raised |-> out.raised, result |-> out.value]
    /\ UNCHANGED <<engine_class, base_temp, scale_factor, category_embeddings,
                   category_descriptions, encode_calls, model_name, ui_vars>>

\* LLMIntegration.generate_response(prompt, temperature, max_tokens)
GenerateResponse ==
    /\ ret = NoCall
    /\ engine_class = "SmartTempEngine"
    /\ \E prompt \in Prompts, temperature \in GenTemps, max_tokens \in MaxTokens,
          net \in NetOutcomes(GenerateBodies) :
        LET out == generate_response(prompt, temperature, max_tokens, net)
        IN  ret' = [op |-> "generate_response", prompt |-> prompt,
                    temperature |-> temperature, max_tokens |-> max_tokens,
                    net |-> net, raised |-> out.raised, result |-> out.value,
                    requests |-> out.requests, mocks |-> out.mocks,
                    handler |-> out.handler]
    /\ UNCHANGED <<engine_class, base_temp, scale_factor, category_embeddings,
                   category_descriptions, encode_calls, model_name, ui_vars>>

\* SimpleLLMIntegration.generate_response(prompt, temperature, max_tokens)
SimpleGenerateResponse ==
    /\ ret = NoCall
    /\ engine_class = "SimpleSmartTempEngine"
    /\ \E prompt \in Prompts, temperature \in GenTemps, max_tokens \in MaxTokens :
        ret' = [op |-> "simple_generate_response", prompt |-> prompt,
                temperature |-> temperature, max_tokens |-> max_tokens,
                raised |-> FALSE,
                result |-> simple_generate_response(prompt, temperature, max_tokens)]
    /\ UNCHANGED <<engine_class, base_temp, scale_factor, category_embeddings,
                   category_descriptions, encode_calls, model_name, ui_vars>>

\* LLMIntegration.get_available_models()
GetAvailableModels ==
    /\ ret = NoCall
    /\ engine_class = "SmartTempEngine"
    /\ \E net \in NetOutcomes(TagsBodies) :
        LET out == get_available_models(net)
        IN  ret' = [op |-> "get_available_models", net |-> net,
                    raised |-> out.raised,
                    result |-> out.value]
    /\ UNCHANGED <<engine_class, base_temp, scale_factor, category_embeddings,
                   category_descriptions, encode_calls, model_name, ui_vars>>

\* LLMIntegration.health_check()
HealthCheck ==
    /\ ret = NoCall
    /\ engine_class = "SmartTempEngine"
    /\ \E net \in NetOutcomes(TagsBodies) :
        LET out == health_check(net)
        IN  ret' = [op |-> "health_check", net |-> net,
                    raised |-> out.raised,
                    result |-> out.value]
    /\ UNCHANGED <<engine_class, base_temp, scale_factor, category_embeddings,
                   category_descriptions, encode_calls, model_name, ui_vars>>

\* LLMIntegration.get_model_info()
GetModelInfo ==
    /\ ret = NoCall
    /\ engine_class = "SmartTempEngine"
    /\ \E net \in NetOutcomes(ShowBodies) :
        LET out == get_model_info(model_name, net)
        IN  ret' = [op |-> "get_model_info", net |-> net,
                    raised |-> out.raised,
                    result |-> out.value]
    /\ UNCHANGED <<engine_class, base_temp, scale_factor, category_embeddings,
                   category_descriptions, encode_calls, model_name, ui_vars>>

\* OpenAIIntegration.generate_response(prompt, temperature, max_tokens)
OpenAIGenerateResponse ==
    /\ ret = NoCall
    /\ engine_class = "SmartTempEngine"
    /\ \E prompt \in Prompts, temperature \in GenTemps, max_tokens \in MaxTokens,
          net \in NetOutcomes(OpenAIBodies) :
        LET out == openai_generate_response(prompt, temperature, max_tokens, net)
        IN  ret' = [op |-> "openai_generate_response", prompt |-> prompt,
                    temperature |-> temperature, max_tokens |-> max_tokens,
                    net |-> net, raised |-> out.raised, result |-> out.value,
                    requests |-> out.requests]
    /\ UNCHANGED <<engine_class, base_temp, scale_factor, category_embeddings,
                   category_descriptions, encode_calls, model_name, ui_vars>>

\* The caller takes the returned value; the next call can start.
Return ==
    /\ ret # NoCall
    /\ ret' = NoCall
    /\ UNCHANGED <<engine_class, base_temp, scale_factor, category_embeddings,
                   category_descriptions, encode_calls, model_name, ui_vars>>

\* ------------------------------------------- the fallback generator alone
\* Model names set_model is given.
ModelNames == {"llama2", "mistral"}

\* Prompts _generate_mock_response is given.
MockPrompts == {<<"a">>, <<"Why", "story">>}

\* Temperatures _generate_mock_response is given: one in each band, two of
\* them on the band limits 0.3 and 0.6.
MockTemps == {600, 900, 1800}

\* LLMIntegration.set_model(model_name)
SetModel ==
    /\ ret = NoCall
    /\ \E name \in ModelNames :
        /\ model_name' = name
        /\ ret' = [op |-> "set_model", model_name |-> name]
    /\ UNCHANGED <<engine_class, base_temp, scale_factor, category_embeddings,
                   category_descriptions, encode_calls, ui_vars>>

\* LLMIntegration._generate_mock_response(prompt, temperature), each call
\* recorded in mock_log with the model name of the moment.
GenerateMockResponse ==
    /\ ret = NoCall
    /\ Len(mock_log) < MaxMockCalls
    /\ \E prompt \in MockPrompts, temperature \in MockTemps :
        LET text == generate_mock_response(prompt, temperature)
        IN  /\ mock_log' = Append(mock_log,
                                  [prompt |-> prompt, temperature |-> temperature,
                                   model_name |-> model_name, text |-> text])
            /\ ret' = [op |-> "_generate_mock_response", prompt |-> prompt,
                       temperature |-> temperature, result |-> text]
    /\ UNCHANGED <<engine_class, base_temp, scale_factor, category_embeddings,
                   category_descriptions, encode_calls, model_name,
                   conversation_history, temperature_history, responses_returned,
                   analyses_returned, invocations>>

InitMock ==
    /\ Init
    /\ engine_class = "SmartTempEngine"
    /\ base_temp = 2100
    /\ scale_factor = 900

NextMock ==
    \/ SetModel
    \/ GenerateMockResponse
    \/ Return

SpecMock == InitMock /\ [][NextMock]_vars

\* ------------------------------------------------- SmartTempGradioApp
\* The temperature output of a call that has none.
NoTemperature == 0 - 1

\* Prompts, slider values, encoder outcomes and backend outcomes the
\* handlers of the app are given.
AppPrompts == {<<>>, <<" ">>, <<"a">>}
\* Slider settings <<base_temp, scale_factor>>: both at their minimum, both
\* at their maximum.
AppSliders == {<<300, 300>>, <<3000, 1500>>}
AppEncoderOutcomes ==
    {[ok |-> FALSE, sims |-> <<>>],
     [ok |-> TRUE, sims |-> [c \in Categories |-> IF c = "factual" THEN 71 ELSE SimFloor]],
     [ok |-> TRUE, sims |-> [c \in Categories |-> IF c = "creative" THEN 41 ELSE SimFloor]]}

\* The backend outcomes the app meets: no connection, an error status, a
\* generated text, and a JSON null or a number in the response field.
AppNetOutcomes ==
    {n \in NetOutcomes(GenerateBodies) :
        \/ n.net = "ConnectionError"
        \/ n.status = 500
        \/ n.body \in {"response text", "response null", "response number"}}

\* Variant: the engine parameters are written before the empty-prompt check.
app_analyze_prompt_WriteFirst(prompt, bt, sf, enc) ==
    IF IsBlank(prompt)
    THEN [outcome |-> "empty", temperature |-> 2100, engine_written |-> TRUE,
          encodes |-> 0, temperature_entries |-> <<>>,
          conversation_entries |-> <<>>]
    ELSE LET out == analyze_prompt(prompt, bt, enc)
             analysis == out.result
         IN  IF out.raised
             THEN [outcome |-> "error", temperature |-> bt, engine_written |-> TRUE,
                   encodes |-> out.encodes, temperature_entries |-> <<>>,
                   conversation_entries |-> <<>>]
             ELSE [outcome |-> "analysis", temperature |-> analysis.temperature,
                   engine_written |-> TRUE, encodes |-> out.encodes,
                   temperature_entries |->
                       <<[temperature |-> analysis.temperature,
                          category |-> analysis.category,
                          confidence |-> analysis.confidence]>>,
                   conversation_entries |-> <<>>]

\* SmartTempGradioApp.analyze_prompt.  What the handler returns (outcome and
\* the temperature output), whether it wrote the engine's parameters, and
\* the entries it appended to the histories.  The charts are built from the
\* history and the similarities after the append; they add nothing to the
\* state.
app_analyze_prompt(prompt, bt, sf, enc) ==
    IF IsBlank(prompt)
    THEN [outcome |-> "empty", temperature |-> 2100, engine_written |-> FALSE,
          encodes |-> 0, temperature_entries |-> <<>>,
          conversation_entries |-> <<>>]
    ELSE LET out == analyze_prompt(prompt, bt, enc)
             analysis == out.result
         IN  IF out.raised
             THEN [outcome |-> "error", temperature |-> bt, engine_written |-> TRUE,
                   encodes |-> out.encodes, temperature_entries |-> <<>>,
                   conversation_entries |-> <<>>]
             ELSE [outcome |-> "analysis", temperature |-> analysis.temperature,
                   engine_written |-> TRUE, encodes |-> out.encodes,
                   temperature_entries |->
                       <<[temperature |-> analysis.temperature,
                          category |-> analysis.category,
                          confidence |-> analysis.confidence]>>,
                   conversation_entries |-> <<>>]

\* Variant: the conversation entry is stored before the generation info is
\* added to the response.
app_generate_response_StoreFirst(prompt, bt, sf, use_smart_temp, enc, net) ==
    IF IsBlank(prompt)
    THEN [outcome |-> "empty", temperature |-> 2100, engine_written |-> FALSE,
          encodes |-> 0, temperature_entries |-> <<>>,
          conversation_entries |-> <<>>]
    ELSE LET out == analyze_prompt(prompt, bt, enc)
             analysis == out.result
             encodes == IF use_smart_temp THEN out.encodes ELSE 0
             temperature == IF use_smart_temp THEN analysis.temperature ELSE bt
             category == IF use_smart_temp THEN analysis.category ELSE "fixed"
             confidence == IF use_smart_temp THEN analysis.confidence ELSE 100
             llm == generate_response(prompt, temperature, 500, net)
             stored == <<[prompt |-> prompt, response |-> llm.value,
                          temperature |-> temperature, category |-> category]>>
         IN  IF use_smart_temp /\ out.raised
             THEN [outcome |-> "error", temperature |-> bt, engine_written |-> TRUE,
                   encodes |-> encodes, temperature_entries |-> <<>>,
                   conversation_entries |-> <<>>]
             ELSE IF llm.raised \/ llm.value.type # "str"
             THEN [outcome |-> "error", temperature |-> bt, engine_written |-> TRUE,
                   encodes |-> encodes, temperature_entries |-> <<>>,
                   conversation_entries |-> stored]
             ELSE [outcome |-> "response", temperature |-> temperature,
                   engine_written |-> TRUE, encodes |-> encodes,
                   temperature_entries |->
                       <<[temperature |-> temperature, category |-> category,
                          confidence |-> confidence]>>,
                   conversation_entries |-> stored]

\* SmartTempGradioApp.generate_response.  `response + generation_info` raises
\* TypeError when the client returned something that is not a str; this is
\* before the appends.
app_generate_response(prompt, bt, sf, use_smart_temp, enc, net) ==
    IF IsBlank(prompt)
    THEN [outcome |-> "empty", temperature |-> 2100, engine_written |-> FALSE,
          encodes |-> 0, temperature_entries |-> <<>>,
          conversation_entries |-> <<>>]
    ELSE LET out == analyze_prompt(prompt, bt, enc)
             analysis == out.result
             encodes == IF use_smart_temp THEN out.encodes ELSE 0
             temperature == IF use_smart_temp THEN analysis.temperature ELSE bt
             category == IF use_smart_temp THEN analysis.category ELSE "fixed"
             confidence == IF use_smart_temp THEN analysis.confidence ELSE 100
             llm == generate_response(prompt, temperature, 500, net)
             stored == <<[prompt |-> prompt, response |-> llm.value,
                          temperature |-> temperature, category |-> category]>>
         IN  IF use_smart_temp /\ out.raised
             THEN [outcome |-> "error", temperature |-> bt, engine_written |-> TRUE,
                   encodes |-> encodes, temperature_entries |-> <<>>,
                   conversation_entries |-> <<>>]
             ELSE IF llm.raised \/ llm.value.type # "str"
             THEN [outcome |-> "error", temperature |-> bt, engine_written |-> TRUE,
                   encodes |-> encodes, temperature_entries |-> <<>>,
                   conversation_entries |-> <<>>]
             ELSE [outcome |-> "response", temperature |-> temperature,
                   engine_written |-> TRUE, encodes |-> encodes,
                   temperature_entries |->
                       <<[temperature |-> temperature, category |-> category,
                          confidence |-> confidence]>>,
                   conversation_entries |-> stored]

\* SmartTempGradioApp.analyze_prompt(prompt, base_temp, scale_factor)
AppAnalyzePrompt ==
    /\ ret = NoCall
    /\ \E prompt \in AppPrompts, sliders \in AppSliders, enc \in AppEncoderOutcomes :
        LET bt == sliders[1]
            sf == sliders[2]
            out == app_analyze_prompt(prompt, bt, sf, enc)
        IN  /\ encode_calls + out.encodes <= MaxEncodeCalls
            /\ Len(temperature_history) + Len(out.temperature_entries) <= MaxHistory
            /\ encode_calls' = encode_calls + out.encodes
            /\ base_temp' = IF out.engine_written THEN bt ELSE base_temp
            /\ scale_factor' = IF out.engine_written THEN sf ELSE scale_factor
            /\ temperature_history' = temperature_history \o out.temperature_entries
            /\ conversation_history' = conversation_history \o out.conversation_entries
            /\ analyses_returned' =
                 analyses_returned + (IF out.outcome = "analysis" THEN 1 ELSE 0)
            /\ ret' = [op |-> "app_analyze_prompt", prompt |-> prompt,
                       outcome |-> out.outcome, temperature |-> out.temperature]
    /\ UNCHANGED <<engine_class, category_embeddings, category_descriptions,
                   model_name, responses_returned, mock_log, invocations>>

\* SmartTempGradioApp.generate_response(prompt, base_temp, scale_factor,
\* use_smart_temp)
AppGenerateResponse ==
    /\ ret = NoCall
    /\ \E prompt \in AppPrompts, sliders \in AppSliders, use_smart_temp \in BOOLEAN,
          enc \in AppEncoderOutcomes, net \in AppNetOutcomes :
        LET bt == sliders[1]
            sf == sliders[2]
            out == app_generate_response(prompt, bt, sf, use_smart_temp, enc, net)
        IN  /\ encode_calls + out.encodes <= MaxEncodeCalls
            /\ Len(temperature_history) + Len(out.temperature_entries) <= MaxHistory
            /\ encode_calls' = encode_calls + out.encodes
            /\ base_temp' = IF out.engine_written THEN bt ELSE base_temp
            /\ scale_factor' = IF out.engine_written THEN sf ELSE scale_factor
            /\ temperature_history' = temperature_history \o out.temperature_entries
            /\ conversation_history' = conversation_history \o out.conversation_entries
            /\ responses_returned' =
                 responses_returned + (IF out.outcome = "response" THEN 1 ELSE 0)
            /\ ret' = [op |-> "app_generate_response", prompt |-> prompt,
                       outcome |-> out.outcome, temperature |-> out.temperature]
    /\ UNCHANGED <<engine_class, category_embeddings, category_descriptions,
                   model_name, analyses_returned, mock_log, invocations>>

\* SmartTempGradioApp.clear_history()
AppClearHistory ==
    /\ ret = NoCall
    /\ conversation_history' = <<>>
    /\ temperature_history' = <<>>
    /\ responses_returned' = 0
    /\ analyses_returned' = 0
    /\ ret' = [op |-> "clear_history", prompt |-> <<>>, outcome |-> "cleared",
               temperature |-> NoTemperature]
    /\ UNCHANGED <<engine_class, base_temp, scale_factor, category_embeddings,
                   category_descriptions, encode_calls, model_name, mock_log,
                   invocations>>

\* SmartTempGradioApp(): SmartTempEngine() and LLMIntegration() with their
\* defaults, both histories empty.
InitApp ==
    /\ Init
    /\ engine_class = "SmartTempEngine"
    /\ base_temp = 2100
    /\ scale_factor = 900

NextApp ==
    \/ AppAnalyzePrompt
    \/ AppGenerateResponse
    \/ AppClearHistory
    \/ Return

SpecApp == InitApp /\ [][NextApp]_vars

\* --------------------------- the simple interface, two requests in flight
\* The handlers of create_simple_interface run on the worker threads of the
\* web server and share one engine.  A request is a call of analyze_prompt
\* or generate_response with the values of its sliders; between two
\* statements of one request the other request may run.
Requests == 1..2

RacePrompts == {<<>>, <<"a">>, <<"story">>}
SliderBaseTemps == {300, 3000}
RaceScaleFactors == {300, 1500}

RequestArguments ==
    [handler : {"analyze_prompt", "generate_response"},
     prompt : RacePrompts,
     base_temp : SliderBaseTemps,
     scale_factor : RaceScaleFactors,
     use_smart_temp : BOOLEAN,
     pc : {"called"},
     temperature : {NoTemperature}]

\* `if not prompt or not prompt.strip(): return " Please enter a prompt", 0.7, ...`
HandlerReturnEmpty(h) ==
    /\ invocations[h].pc = "called"
    /\ IsBlank(invocations[h].prompt)
    /\ invocations' = [invocations EXCEPT ![h].pc = "returned",
                                          ![h].temperature = 2100]
    /\ UNCHANGED <<engine_class, base_temp, scale_factor, category_embeddings,
                   category_descriptions, encode_calls, model_name,
                   conversation_history, temperature_history, responses_returned,
                   analyses_returned, mock_log, ret>>

\* `engine.base_temp = base_temp`
HandlerWriteBaseTemp(h) ==
    /\ invocations[h].pc = "called"
    /\ ~IsBlank(invocations[h].prompt)
    /\ base_temp' = invocations[h].base_temp
    /\ invocations' = [invocations EXCEPT ![h].pc = "wrote_base_temp"]
    /\ UNCHANGED <<engine_class, scale_factor, category_embeddings,
                   category_descriptions, encode_calls, model_name,
                   conversation_history, temperature_history, responses_returned,
                   analyses_returned, mock_log, ret>>

\* `engine.scale_factor = scale_factor`
HandlerWriteScaleFactor(h) ==
    /\ invocations[h].pc = "wrote_base_temp"
    /\ scale_factor' = invocations[h].scale_factor
    /\ invocations' = [invocations EXCEPT ![h].pc = "wrote_scale_factor"]
    /\ UNCHANGED <<engine_class, base_temp, category_embeddings,
                   category_descriptions, encode_calls, model_name,
                   conversation_history, temperature_history, responses_returned,
                   analyses_returned, mock_log, ret>>

\* The rest of the handler: engine.analyze_prompt(prompt), which reads the
\* engine's base_temp and scale_factor as they are now, the generation, the
\* appends to the histories and the return.
HandlerFinish(h) ==
    /\ invocations[h].pc = "wrote_scale_factor"
    /\ LET inv == invocations[h]
           analysis == simple_analyze_prompt(inv.prompt, base_temp, scale_factor).result
           smart == inv.handler = "analyze_prompt" \/ inv.use_smart_temp
           temperature == IF smart THEN analysis.temperature ELSE inv.base_temp
           category == IF smart THEN analysis.category ELSE "fixed"
           confidence == IF smart THEN analysis.confidence ELSE 100
           response == simple_generate_response(inv.prompt, temperature, 500)
       IN  /\ invocations' = [invocations EXCEPT ![h].pc = "returned",
                                                 ![h].temperature = temperature]
           /\ temperature_history' =
                Append(temperature_history,
                       [temperature |-> temperature, category |-> category,
                        confidence |-> confidence])
           /\ conversation_history' =
                IF inv.handler = "generate_response"
                THEN Append(conversation_history,
                            [prompt |-> inv.prompt, response |-> response,
                             temperature |-> temperature, category |-> category])
                ELSE conversation_history
    /\ UNCHANGED <<engine_class, base_temp, scale_factor, category_embeddings,
                   category_descriptions, encode_calls, model_name,
                   responses_returned, analyses_returned, mock_log, ret>>

\* create_simple_interface: SimpleSmartTempEngine() with its defaults, and
\* two requests arriving.
InitRace ==
    /\ Init
    /\ engine_class = "SimpleSmartTempEngine"
    /\ base_temp = 2100
    /\ scale_factor = 900

ArriveRequests ==
    /\ invocations = <<>>
    /\ invocations' \in [Requests -> RequestArguments]
    /\ UNCHANGED <<engine_class, base_temp, scale_factor, category_embeddings,
                   category_descriptions, encode_calls, model_name,
                   conversation_history, temperature_history, responses_returned,
                   analyses_returned, mock_log, ret>>

NextRace ==
    \/ ArriveRequests
    \/ \E h \in DOMAIN invocations : HandlerReturnEmpty(h)
    \/ \E h \in DOMAIN invocations : HandlerWriteBaseTemp(h)
    \/ \E h \in DOMAIN invocations : HandlerWriteScaleFactor(h)
    \/ \E h \in DOMAIN invocations : HandlerFinish(h)

SpecRace == InitRace /\ [][NextRace]_vars

Next ==
    \/ AnalyzePrompt
    \/ SimpleAnalyzePrompt
    \/ CalculateTemperature
    \/ GetCategoryDescription
    \/ GetOptimalTemperatureRange
    \/ GenerateResponse
    \/ SimpleGenerateResponse
    \/ GetAvailableModels
    \/ HealthCheck
    \/ GetModelInfo
    \/ OpenAIGenerateResponse
    \/ Return

Spec == Init /\ [][Next]_vars

\* ================================================================= claims

\* C1: for every prompt and every base_temp, the temperature of the result of
\* SmartTempEngine.analyze_prompt lies in [0.1, 1.0].
C1_AnalyzeTemperatureInRange ==
    (ret.op = "analyze_prompt" /\ engine_class = "SmartTempEngine")
        => (~ret.raised /\ ret.result.temperature \in TMin..TMax)

\* C2: LLMIntegration.generate_response returns without raising, and what it
\* returns is a non-empty text, for every backend outcome.
C2_GenerateReturnsNonEmptyText ==
    ret.op = "generate_response"
        => (~ret.raised /\ IsNonEmptyText(ret.result))

\* C3: for an empty or whitespace-only prompt, analyze_prompt of both engines
\* returns category analytical, confidence 0.5, temperature = the engine's
\* current base_temp, no similarities and no error entry, and the call makes
\* no encoder call.
C3_BlankPromptDefault ==
    [][(ret'.op = "analyze_prompt" /\ IsBlank(ret'.prompt))
        => /\ ~ret'.raised
           /\ ret'.result.category = "analytical"
           /\ ret'.result.confidence = 50
           /\ ret'.result.temperature = base_temp'
           /\ ret'.result.all_similarities = <<>>
           /\ ret'.result.error = FALSE
           /\ ret'.result.prompt = ret'.prompt
           /\ encode_calls' = encode_calls]_vars

C3_Witness ==
    /\ ret.op = "analyze_prompt"
    /\ ret.prompt = <<" ", " ">>
    /\ base_temp = 4500
    /\ ret.result.temperature = 4500
    /\ encode_calls > 0

\* C4: calculate_temperature returns a value in [0.1, 1.0] for every
\* confidence (also below 0 and above 1), every category name (known or not)
\* and every base_temp (also outside [0.1, 1.0]).
C4_CalculateTemperatureClamped ==
    ret.op = "calculate_temperature" => ret.result \in TMin..TMax

C4_Witness ==
    /\ ret.op = "calculate_temperature"
    /\ ret.category \notin Categories
    /\ ret.confidence > 100
    /\ base_temp > TMax
    /\ ret.result = TMax

\* C5: for each of the six categories and every confidence in (0.7, 1.0],
\* calculate_temperature returns the category's base temperature: factual 0.1,
\* instructional 0.3, analytical 0.5, personal 0.6, philosophical 0.7,
\* creative 0.9.
C5_HighConfidenceIsCategoryBase ==
    (ret.op = "calculate_temperature" /\ ret.category \in Categories
        /\ ret.confidence > 70 /\ ret.confidence <= 100)
        => ret.result =
             (CASE ret.category = "factual" -> 300
                [] ret.category = "instructional" -> 900
                [] ret.category = "analytical" -> 1500
                [] ret.category = "personal" -> 1800
                [] ret.category = "philosophical" -> 2100
                [] ret.category = "creative" -> 2700)

C5_Witness ==
    /\ ret.op = "calculate_temperature"
    /\ ret.category = "creative"
    /\ ret.confidence = 71
    /\ ret.result = 2700

\* C6: for every confidence <= 0.4 (0.4 itself and negative values included)
\* and every category, known or not, calculate_temperature returns 0.8.
C6_LowConfidenceIsExploratory ==
    (ret.op = "calculate_temperature" /\ ret.confidence <= 40)
        => ret.result = 2400

C6_Witness ==
    /\ ret.op = "calculate_temperature"
    /\ ret.confidence < 0
    /\ ret.category \notin Categories
    /\ base_temp # 2400
    /\ ret.result = 2400

\* C7: when the encoder raises for a non-empty prompt, SmartTempEngine's
\* analyze_prompt does not raise; it returns the empty-input result (category
\* analytical, confidence 0.5, temperature = base_temp, no similarities) with
\* an error entry.
C7_EncoderFailureRecovered ==
    (ret.op = "analyze_prompt" /\ engine_class = "SmartTempEngine"
        /\ ~IsBlank(ret.prompt) /\ ~ret.encoder_ok)
        => /\ ~ret.raised
           /\ ret.result.category = "analytical"
           /\ ret.result.confidence = 50
           /\ ret.result.temperature = base_temp
           /\ ret.result.all_similarities = <<>>
           /\ ret.result.prompt = ret.prompt
           /\ ret.result.error = TRUE

C7_Witness ==
    /\ ret.op = "analyze_prompt"
    /\ engine_class = "SmartTempEngine"
    /\ ~IsBlank(ret.prompt)
    /\ ~ret.encoder_ok
    /\ ret.result.error = TRUE

\* C8: the fallback generators choose the template by temperature band only
\* (< 0.3 factual, [0.3, 0.6) analytical, >= 0.6 creative) and every template
\* shows the requested temperature rounded to two decimals; with the backend
\* unreachable and temperature 0.2 the text is the factual one and shows 0.20.
C8_Fallback(op) ==
    op.op = "simple_generate_response" \/ (op.op = "generate_response" /\ op.mocks = 1)

C8_FallbackTemplateByBand ==
    /\ C8_Fallback(ret) =>
        /\ ret.result.type = "str"
        /\ ret.temperature < 900 => ret.result.template = "Factual Response"
        /\ (ret.temperature >= 900 /\ ret.temperature < 1800)
              => ret.result.template = "Analytical Response"
        /\ ret.temperature >= 1800 => ret.result.template = "Creative Response"
        /\ ret.result.shown.neg = (ret.temperature < 0)
        /\ LET h == ret.result.shown.hundredths
               a == IF ret.temperature < 0 THEN 0 - ret.temperature ELSE ret.temperature
           IN  h >= 0 /\ 30 * h - a <= 15 /\ a - 30 * h <= 15
        /\ ret.result.prompt = ret.prompt
    /\ (ret.op = "generate_response" /\ ret.net.net = "ConnectionError"
            /\ ret.temperature = 600)
        => /\ ~ret.raised
           /\ ret.result.template = "Factual Response"
           /\ ret.result.shown = [neg |-> FALSE, hundredths |-> 20]

C8_Witness ==
    /\ ret.op = "generate_response"
    /\ ret.net.net = "ConnectionError"
    /\ ret.temperature = 600
    /\ ret.mocks = 1
    /\ ret.result.template = "Factual Response"

\* C9: when the backend answers 200 with a JSON object, generate_response
\* returns the value of its 'response' field, or 'No response generated' when
\* the object has no such field, and does not call the fallback generator.
C9_SuccessReturnsResponseField ==
    (ret.op = "generate_response" /\ ret.net.net = "response" /\ ret.net.status = 200
        /\ ret.net.body \notin {"not json", "array"})
        => /\ ~ret.raised
           /\ ret.mocks = 0
           /\ ret.net.body = "object" => ret.result = PyStr("No response generated")
           /\ ret.net.body = "response text" => ret.result = PyStr("Paris")
           /\ ret.net.body = "response empty" => ret.result = PyStr("")
           /\ ret.net.body = "response null" => ret.result = PyNone
           /\ ret.net.body = "response number" => ret.result = PyNumber

C9_Witness ==
    /\ ret.op = "generate_response"
    /\ ret.net.status = 200
    /\ ret.net.body = "object"
    /\ ret.result = PyStr("No response generated")

\* C10: the auxiliary operations never raise; when the request or the decoding
\* of its answer fails, get_available_models returns the default list,
\* health_check returns False and get_model_info returns a mapping with an
\* 'error' key.
C10_RequestFailed(net) == net.net # "response" \/ net.status >= 400

C10_AuxiliaryNeverRaise ==
    /\ ret.op = "get_available_models" =>
        /\ ~ret.raised
        /\ (C10_RequestFailed(ret.net)
              \/ ret.net.body \in {"not json", "array", "models null", "models unnamed"})
            => ret.result = <<"llama2", "mistral", "codellama">>
    /\ ret.op = "health_check" =>
        /\ ~ret.raised
        /\ C10_RequestFailed(ret.net) => ret.result = FALSE
    /\ ret.op = "get_model_info" =>
        /\ ~ret.raised
        /\ (C10_RequestFailed(ret.net) \/ ret.net.body = "not json")
            => (ret.result.type = "dict" /\ "error" \in ret.result.keys)

C10_Witness ==
    /\ ret.op = "get_available_models"
    /\ ret.net.net = "response"
    /\ ret.net.status = 200
    /\ ret.net.body = "models unnamed"
    /\ ret.result = <<"llama2", "mistral", "codellama">>

\* C11: health_check returns True exactly when the GET on the tags endpoint
\* completes with status 200; it returns False when the backend is unreachable
\* or times out and when it answers with any other status.
C11_HealthCheckIffStatus200 ==
    ret.op = "health_check"
        => /\ ~ret.raised
           /\ ret.result = (ret.net.net = "response" /\ ret.net.status = 200)

C11_Witness ==
    /\ ret.op = "health_check"
    /\ ret.net.net = "response"
    /\ ret.net.status = 204
    /\ ret.result = FALSE

\* C12: OpenAIIntegration.generate_response never raises; when the backend
\* answers with a body that has choices[0].message.content it returns that
\* value, and on a connection error, a timeout, an HTTP error status or a body
\* without the expected fields it returns None.
C12_OpenAIContentOrNone ==
    ret.op = "openai_generate_response"
        => /\ ~ret.raised
           /\ (ret.net.net # "response" \/ ret.net.status >= 400
                 \/ ret.net.body \in {"not json", "array", "object", "choices null",
                                      "choices empty", "no message", "no content"})
               => ret.result = PyNone
           /\ (ret.net.net = "response" /\ ret.net.status = 200) =>
               /\ ret.net.body = "content text" => ret.result = PyStr("Paris")
               /\ ret.net.body = "content empty" => ret.result = PyStr("")
               /\ ret.net.body = "content null" => ret.result = PyNone

C12_Witness ==
    /\ ret.op = "openai_generate_response"
    /\ ret.net.net = "response"
    /\ ret.net.status = 200
    /\ ret.net.body = "choices empty"
    /\ ret.result = PyNone

\* C13: get_category_description and get_optimal_temperature_range do not fail
\* for an unrecognized category name; they return 'General purpose response'
\* and (0.3, 0.7).  For each of the six categories they return that category's
\* own description and range.
C13_DescribeAndRangeTotal ==
    /\ ret.op = "get_category_description" =>
        /\ ~ret.raised
        /\ ret.category \notin
             {"factual", "analytical", "creative", "philosophical", "personal",
              "instructional"} => ret.result = "General purpose response"
        /\ ret.category = "factual" =>
             ret.result = "Precise, factual information with low temperature for accuracy"
        /\ ret.category = "analytical" =>
             ret.result = "Balanced analysis with moderate temperature"
        /\ ret.category = "creative" =>
             ret.result = "Imaginative and exploratory with high temperature"
        /\ ret.category = "philosophical" =>
             ret.result = "Thoughtful exploration with medium-high temperature"
        /\ ret.category = "personal" =>
             ret.result = "Empathic and contextual with medium temperature"
        /\ ret.category = "instructional" =>
             ret.result = "Clear, step-by-step with medium-low temperature"
    /\ ret.op = "get_optimal_temperature_range" =>
        /\ ~ret.raised
        /\ ret.category \notin
             {"factual", "analytical", "creative", "philosophical", "personal",
              "instructional"} => ret.result = <<900, 2100>>
        /\ ret.category = "factual" => ret.result = <<300, 900>>
        /\ ret.category = "instructional" => ret.result = <<600, 1200>>
        /\ ret.category = "analytical" => ret.result = <<1200, 1800>>
        /\ ret.category = "personal" => ret.result = <<1500, 2100>>
        /\ ret.category = "philosophical" => ret.result = <<1800, 2400>>
        /\ ret.category = "creative" => ret.result = <<2100, 3000>>

C13_Witness ==
    /\ ret.op = "get_category_description"
    /\ ret.category = "fixed"
    /\ ret.result = "General purpose response"

\* C14 as stated: in the keyword-pattern engine a non-empty prompt gets
\* temperature = clamp(base + (1 - confidence) * scale_factor, 0.1, 1.0) with
\* base the engine's configured base_temp.
C14_SimpleCall ==
    /\ ret.op = "analyze_prompt"
    /\ engine_class = "SimpleSmartTempEngine"
    /\ ~IsBlank(ret.prompt)

C14_LegacyFormula(base, confidence, sf) ==
    LET t == base + ((100 - confidence) * sf) \div 100
    IN  IF t < 300 THEN 300 ELSE IF t > 3000 THEN 3000 ELSE t

C15_StoryCreativeAtLeast07 ==
    /\ (ret.op = "analyze_prompt" /\ engine_class = "SimpleSmartTempEngine"
            /\ ret.prompt = StoryPrompt)
        => (ret.result.category = "creative" /\ ret.result.temperature >= 2100)
    /\ (ret.op = "analyze_prompt" /\ engine_class = "SmartTempEngine"
            /\ ret.prompt = StoryPrompt /\ ret.encoder_ok
            /\ ret.result.category = "creative")
        => ret.result.temperature >= 2100
    /\ (ret.op = "calculate_temperature" /\ ret.category = "creative")
        => ret.result >= 2100

C15_Witness ==
    /\ ret.op = "analyze_prompt"
    /\ engine_class = "SimpleSmartTempEngine"
    /\ ret.prompt = StoryPrompt
    /\ scale_factor = 300
    /\ ret.result.category = "creative"
    /\ ret.result.confidence = 60
    /\ ret.result.temperature = 2820

\* C16: 'What is the capital of Brazil and its population?' is classified
\* factual with temperature <= 0.3 by the keyword-pattern engine for every
\* scale_factor in [0.1, 0.5]; the embedding engine gives it temperature <= 0.3
\* whenever factual is the winning category with confidence > 0.7.
C16_CapitalFactualAtMost03 ==
    /\ (ret.op = "analyze_prompt" /\ engine_class = "SimpleSmartTempEngine"
            /\ ret.prompt = CapitalPrompt)
        => (ret.result.category = "factual" /\ ret.result.temperature <= 900)
    /\ (ret.op = "analyze_prompt" /\ engine_class = "SmartTempEngine"
            /\ ret.prompt = CapitalPrompt /\ ret.encoder_ok
            /\ ret.result.category = "factual" /\ ret.result.confidence > 70)
        => ret.result.temperature <= 900
    /\ (ret.op = "calculate_temperature" /\ ret.category = "factual"
            /\ ret.confidence > 70)
        => ret.result <= 900

C16_Witness ==
    /\ ret.op = "analyze_prompt"
    /\ engine_class = "SimpleSmartTempEngine"
    /\ ret.prompt = CapitalPrompt
    /\ scale_factor = 1500
    /\ ret.result.category = "factual"
    /\ ret.result.confidence = 90
    /\ ret.result.temperature = 450

\* The base temperatures as the claims state them.
ClaimedBase(category) ==
    CASE category = "factual" -> 300
      [] category = "instructional" -> 900
      [] category = "analytical" -> 1500
      [] category = "personal" -> 1800
      [] category = "philosophical" -> 2100
      [] category = "creative" -> 2700

\* C17: for every category with base temperature b and every confidence c
\* with 0.4 < c <= 0.7, calculate_temperature returns
\* b + (0.8 - b) * (0.7 - c) / 0.3 (both sides multiplied by 30 here).
C17_MediumTierBlend ==
    (ret.op = "calculate_temperature" /\ ret.category \in Categories
        /\ ret.confidence > 40 /\ ret.confidence <= 70)
        => 30 * ret.result
             = 30 * ClaimedBase(ret.category)
               + (2400 - ClaimedBase(ret.category)) * (70 - ret.confidence)

C17_Witness ==
    /\ ret.op = "calculate_temperature"
    /\ ret.category = "factual"
    /\ ret.confidence = 55
    /\ ret.result = 1350

\* C18: for every category, calculate_temperature at confidence exactly 0.7
\* equals the category's base temperature (the high-confidence value), and at
\* confidence exactly 0.4 it equals 0.8, the value of the medium-tier blend
\* b + (0.8 - b) * (0.7 - 0.4) / 0.3.
C18_TierBoundariesAgree ==
    (ret.op = "calculate_temperature" /\ ret.category \in Categories) =>
        /\ ret.confidence = 70 => ret.result = ClaimedBase(ret.category)
        /\ ret.confidence = 40 =>
            /\ ret.result = 2400
            /\ 30 * ret.result
                 = 30 * ClaimedBase(ret.category)
                   + (2400 - ClaimedBase(ret.category)) * (70 - 40)

C18_Witness ==
    /\ ret.op = "calculate_temperature"
    /\ ret.category = "creative"
    /\ ret.confidence = 40
    /\ ret.result = 2400

C20_ConnectionFailure == [net |-> "ConnectionError", status |-> 0, body |-> "none"]

C21_Rank(c) == CHOOSE i \in 1..Len(CategoryOrder) : CategoryOrder[i] = c

\* C21: SmartTempEngine.analyze_prompt on a non-empty prompt whose encoding
\* succeeds selects a category whose similarity is the maximum over all
\* categories, and every category that comes earlier in the store's
\* iteration order (factual, analytical, creative, philosophical, personal,
\* instructional) has a strictly smaller similarity: ties go to the first.
C21_ArgmaxFirstWins ==
    (/\ ret.op = "analyze_prompt"
     /\ engine_class = "SmartTempEngine"
     /\ ~IsBlank(ret.prompt)
     /\ ret.encoder_ok)
    => LET sims == ret.result.all_similarities
           category == ret.result.category
       IN  /\ category \in Categories
           /\ CategoryOrder =
                <<"factual", "analytical", "creative", "philosophical",
                  "personal", "instructional">>
           /\ \A c \in Categories :
                /\ sims[c] <= sims[category]
                /\ C21_Rank(c) < C21_Rank(category) => sims[c] < sims[category]

\* A tie at the maximum between analytical and instructional: analytical,
\* the earlier one, is selected.
C21_Witness ==
    /\ ret.op = "analyze_prompt"
    /\ engine_class = "SmartTempEngine"
    /\ ~IsBlank(ret.prompt)
    /\ ret.encoder_ok
    /\ ret.result.all_similarities["analytical"] = 71
    /\ ret.result.all_similarities["instructional"] = 71
    /\ ret.result.category = "analytical"

\* ---------------------------------------------------------------- C22
\* C22: for a non-empty prompt whose encoding succeeds, all_similarities of
\* SmartTempEngine.analyze_prompt has exactly the six categories as keys, and
\* confidence is all_similarities[category], unmodified, which is the
\* maximum value of the map.
C22_ConfidenceIsMaxSimilarity ==
    (/\ ret.op = "analyze_prompt"
     /\ engine_class = "SmartTempEngine"
     /\ ~IsBlank(ret.prompt)
     /\ ret.encoder_ok)
    => LET sims == ret.result.all_similarities
       IN  /\ DOMAIN sims = Categories
           /\ Cardinality(DOMAIN sims) = 6
           /\ ret.result.confidence = sims[ret.result.category]
           /\ \A c \in Categories : sims[c] <= ret.result.confidence

\* Every similarity is negative: the confidence is the negative maximum.
C22_Witness ==
    /\ ret.op = "analyze_prompt"
    /\ engine_class = "SmartTempEngine"
    /\ ~IsBlank(ret.prompt)
    /\ ret.encoder_ok
    /\ ret.result.confidence = SimFloor
    /\ \A c \in Categories : ret.result.all_similarities[c] = SimFloor

\* ---------------------------------------------------------------- C25
\* C25: for every known category with base temperature b and every
\* confidence, calculate_temperature returns a value between min(b, 0.8) and
\* max(b, 0.8), and the value moves monotonically from b toward 0.8 as the
\* confidence decreases: lowering the confidence by 0.01 never lowers the
\* result when b <= 0.8 and never raises it for creative (b = 0.9).
C25_BetweenBaseAndExploratory ==
    (/\ ret.op = "calculate_temperature"
     /\ ret.category \in Categories)
    => LET b == ClaimedBase(ret.category)
           lower == calculate_temperature(ret.confidence - 1, ret.category, base_temp)
       IN  /\ Min2(b, 2400) <= ret.result
           /\ ret.result <= Max2(b, 2400)
           /\ b <= 2400 => ret.result <= lower
           /\ b > 2400 => ret.result >= lower
           /\ lower >= Min2(b, 2400) /\ lower <= Max2(b, 2400)

\* Creative in the middle of the blend: half way from 0.9 down to 0.8.
C25_Witness ==
    /\ ret.op = "calculate_temperature"
    /\ ret.category = "creative"
    /\ ret.confidence = 55
    /\ ret.result = 2550
    /\ calculate_temperature(54, "creative", base_temp) = 2540

\* ---------------------------------------------------------------- C26
\* The temperature of a known category as a function of category and
\* confidence alone.
C26_Expected(category, confidence) ==
    LET b == ClaimedBase(category)
    IN  IF confidence > 70 THEN b
        ELSE IF confidence > 40 THEN b + ((2400 - b) * (70 - confidence)) \div 30
        ELSE 2400

C27_Rank(c) == CHOOSE i \in 1..Len(PatternOrder) : PatternOrder[i] = c

\* The confidence is the score of the selected category, which is the
\* maximum score, ties going to the first category in pattern order.
C27_ConfidenceIsMaxScore(result) ==
    LET scores == result.all_similarities
    IN  /\ result.confidence = scores[result.category]
        /\ \A c \in Categories :
             /\ scores[c] <= result.confidence
             /\ C27_Rank(c) < C27_Rank(result.category) => scores[c] < result.confidence

C23_EngineCalls ==
    {"analyze_prompt", "calculate_temperature", "get_category_description",
     "get_optimal_temperature_range"}

\* C23: category embeddings are computed only at construction: no call of
\* analyze_prompt, calculate_temperature, get_category_description or
\* get_optimal_temperature_range changes category_embeddings or
\* category_descriptions; analyze_prompt calls the encoder exactly once for a
\* non-empty prompt and not at all for an empty one, and the other three
\* methods never call it.
C23_EmbeddingsOnlyAtConstruction ==
    [][(/\ engine_class = "SmartTempEngine"
        /\ ret = NoCall
        /\ ret'.op \in C23_EngineCalls)
       => /\ category_embeddings' = category_embeddings
          /\ category_descriptions' = category_descriptions
          /\ DOMAIN category_embeddings' = Categories
          /\ encode_calls' =
               IF ret'.op = "analyze_prompt" /\ ~IsBlank(ret'.prompt)
               THEN encode_calls + 1
               ELSE encode_calls]_vars

\* A second non-empty analysis has returned: two encoder calls in all, the
\* embeddings are those of the construction.
C23_Witness ==
    /\ engine_class = "SmartTempEngine"
    /\ ret.op = "analyze_prompt"
    /\ ~IsBlank(ret.prompt)
    /\ encode_calls = 2
    /\ category_embeddings = [c \in Categories |-> <<"embedding", c>>]
    /\ category_descriptions = [c \in Categories |-> <<"description", c>>]

C28_OwnArgumentsOnly ==
    \A h \in DOMAIN invocations :
        LET inv == invocations[h]
        IN  (inv.pc = "returned" /\ ~IsBlank(inv.prompt))
            => inv.temperature =
                 IF inv.handler = "generate_response" /\ ~inv.use_smart_temp
                 THEN inv.base_temp
                 ELSE simple_analyze_prompt(inv.prompt, inv.base_temp,
                                            inv.scale_factor).result.temperature

====
